---- MODULE Spec2Model ----
(***************************************************************************)
(* A model of the radix trie of rust_radix_trie: the Trie facade of        *)
(* src/src/trie.rs and the entry iterator of src/src/iter.rs, over the     *)
(* TrieNode core (lookup, insertion with splits, removal with compaction,  *)
(* ancestor lookup, integrity pass), which is described in spec.md         *)
(* sections 4.2 to 4.9.                                                    *)
(***************************************************************************)
EXTENDS Integers, Sequences, FiniteSets, TLC

(***************************************************************************)
(* Bounds and input samples.                                               *)
(***************************************************************************)
\* The largest number of entries the trie is allowed to hold.
MaxEntries == 3

\* The bytes keys are made of: 0x00, 0x01 and 0x10.  0x00 and 0x01 share their
\* high nibble (a split inside a byte), 0x10 differs from both in its first
\* nibble (a split at a byte boundary).
Bytes == {0, 1, 16}

\* The byte strings of the keys: the empty key (stored at the root), every
\* one-byte key, and the two-byte keys 0x00 0x01 and 0x00 0x10, which extend the
\* key 0x00 and part at the very nibble where 0x00 ends.
KeyBytes ==
    {<<>>} \cup {<<b>> : b \in Bytes} \cup {<<0, b>> : b \in Bytes \ {0}}

\* The byte strings for which a second, distinct key with the same encoding
\* exists.
Twinned == {<<0>>}

\* A key is a byte string and a tag that encode() ignores: two keys with the
\* same bytes and different tags are distinct keys sharing one encoding.
Keys ==
    {[bytes |-> b, tag |-> 0] : b \in KeyBytes}
        \cup {[bytes |-> b, tag |-> 1] : b \in Twinned}

Values == {1, 2}

(***************************************************************************)
(* Option<T>: None is the empty sequence, Some(x) the one-element one.     *)
(***************************************************************************)
None == <<>>

Some(x) == <<x>>

is_some(o) == o # <<>>

is_none(o) == o = <<>>

unwrap(o) == o[1]

(***************************************************************************)
(* NibbleVec.                                                              *)
(***************************************************************************)
BRANCH_FACTOR == 16

Nibbles == 0 .. (BRANCH_FACTOR - 1)

\* The nibbles of a byte string: each byte gives its high nibble, then its low.
RECURSIVE from_byte_vec(_)
from_byte_vec(bs) ==
    IF bs = <<>> THEN <<>>
    ELSE <<Head(bs) \div BRANCH_FACTOR, Head(bs) % BRANCH_FACTOR>>
             \o from_byte_vec(Tail(bs))

encode(k) == from_byte_vec(k.bytes)

\* The length of the common prefix of a and b.
RECURSIVE match_count(_, _)
match_count(a, b) ==
    IF a = <<>> \/ b = <<>> THEN 0
    ELSE IF Head(a) # Head(b) THEN 0
    ELSE 1 + match_count(Tail(a), Tail(b))

split_at(v, i) == <<SubSeq(v, 1, i), SubSeq(v, i + 1, Len(v))>>

join(x, y) == x \o y

IsPrefix(p, q) == Len(p) <= Len(q) /\ SubSeq(q, 1, Len(p)) = p

(***************************************************************************)
(* TrieNode.                                                               *)
(***************************************************************************)
NoChildren == [i \in Nibbles |-> None]

KeyValue(k, v) == [key |-> k, value |-> v]

TrieNode_new ==
    [key |-> <<>>, key_value |-> None, children |-> NoChildren, child_count |-> 0]

\* A fresh leaf holding (k, v) under the fragment frag.
with_key_value(frag, k, v) ==
    [key |-> frag, key_value |-> Some(KeyValue(k, v)),
     children |-> NoChildren, child_count |-> 0]

value(node) ==
    IF is_some(node.key_value) THEN Some(unwrap(node.key_value).value) ELSE None

value_checked(node, k) ==
    IF is_some(node.key_value) /\ unwrap(node.key_value).key = k
    THEN Some(unwrap(node.key_value).value)
    ELSE None

value_checked_mut(node, k) == value_checked(node, k)

\* Lookup of the node whose path is q.
RECURSIVE TrieNode_get(_, _)
TrieNode_get(self, q) ==
    LET m == match_count(self.key, q) IN
    IF m < Len(self.key) THEN None
    ELSE IF m = Len(q) THEN Some(self)
    ELSE LET child == self.children[q[m + 1]] IN
         IF is_none(child) THEN None
         ELSE TrieNode_get(unwrap(child), SubSeq(q, m + 1, Len(q)))

TrieNode_get_mut(self, q) == TrieNode_get(self, q)

\* Insertion of (k, v) with encoded remainder q: [node, ret], the node that
\* replaces self and the previous value, if any.
RECURSIVE TrieNode_insert(_, _, _, _)
TrieNode_insert(self, k, v, q) ==
    LET m == match_count(self.key, q) IN
    IF m = Len(self.key) /\ m = Len(q) THEN
        \* exact hit
        [node |-> [self EXCEPT !.key_value = Some(KeyValue(k, v))],
         ret |-> value(self)]
    ELSE IF m = Len(self.key) THEN
        \* descend
        LET rest == SubSeq(q, m + 1, Len(q))
            idx == rest[1]
        IN  IF is_some(self.children[idx]) THEN
                LET r == TrieNode_insert(unwrap(self.children[idx]), k, v, rest) IN
                [node |-> [self EXCEPT !.children[idx] = Some(r.node)],
                 ret |-> r.ret]
            ELSE
                [node |-> [self EXCEPT !.children[idx] =
                                           Some(with_key_value(rest, k, v)),
                                       !.child_count = @ + 1],
                 ret |-> None]
    ELSE
        LET common == split_at(self.key, m)[1]
            old_tail == split_at(self.key, m)[2]
            old == [self EXCEPT !.key = old_tail]
        IN  IF m < Len(q) THEN
                \* split with a new branch
                [node |-> [key |-> common, key_value |-> None,
                           children |-> [i \in Nibbles |->
                               IF i = old_tail[1] THEN Some(old)
                               ELSE IF i = q[m + 1]
                               THEN Some(with_key_value(SubSeq(q, m + 1, Len(q)), k, v))
                               ELSE None],
                           child_count |-> 2],
                 ret |-> None]
            ELSE
                \* split promoting the new key
                [node |-> [key |-> common, key_value |-> Some(KeyValue(k, v)),
                           children |-> [i \in Nibbles |->
                               IF i = old_tail[1] THEN Some(old) ELSE None],
                           child_count |-> 1],
                 ret |-> None]

\* The only non-empty child of a node that has exactly one.
only_child(node) ==
    unwrap(node.children[CHOOSE i \in Nibbles : is_some(node.children[i])])

\* What the parent does with the child c it has just visited in slot idx:
\* vacate the slot of an empty child, merge a value-less single-child node
\* into its child, keep anything else.
\* compact_child that drops an empty child but never merges.
compact_child_no_merge(self, idx, c) ==
    IF is_none(c.key_value) /\ c.child_count = 0 THEN
        [self EXCEPT !.children[idx] = None, !.child_count = @ - 1]
    ELSE
        [self EXCEPT !.children[idx] = Some(c)]

\* compact_child whose merge keeps the child's fragment as it was.
compact_child_keep_fragment(self, idx, c) ==
    IF is_none(c.key_value) /\ c.child_count = 0 THEN
        [self EXCEPT !.children[idx] = None, !.child_count = @ - 1]
    ELSE IF is_none(c.key_value) /\ c.child_count = 1 THEN
        [self EXCEPT !.children[idx] = Some(only_child(c))]
    ELSE
        [self EXCEPT !.children[idx] = Some(c)]

compact_child(self, idx, c) ==
    IF is_none(c.key_value) /\ c.child_count = 0 THEN
        [self EXCEPT !.children[idx] = None, !.child_count = @ - 1]
    ELSE IF is_none(c.key_value) /\ c.child_count = 1 THEN
        [self EXCEPT !.children[idx] =
            Some([only_child(c) EXCEPT !.key = join(c.key, only_child(c).key)])]
    ELSE
        [self EXCEPT !.children[idx] = Some(c)]

\* Removal of key k with encoded remainder q: [node, ret], self after the
\* removal (compaction of self is its parent's step) and the removed value.
RECURSIVE TrieNode_remove_rec(_, _, _)
TrieNode_remove_rec(self, k, q) ==
    LET m == match_count(self.key, q) IN
    IF m < Len(self.key) THEN [node |-> self, ret |-> None]
    ELSE IF m = Len(q) THEN
        IF is_some(value_checked(self, k))
        THEN [node |-> [self EXCEPT !.key_value = None], ret |-> value(self)]
        ELSE [node |-> self, ret |-> None]
    ELSE
        LET rest == SubSeq(q, m + 1, Len(q))
            idx == rest[1]
        IN  IF is_none(self.children[idx]) THEN [node |-> self, ret |-> None]
            ELSE LET r == TrieNode_remove_rec(unwrap(self.children[idx]), k, rest) IN
                 [node |-> compact_child(self, idx, r.node), ret |-> r.ret]

\* remove on the root: the root itself is never merged away.
TrieNode_remove(self, k) == TrieNode_remove_rec(self, k, encode(k))

\* Ancestor lookup: the deepest value-bearing node met while descending along
\* q, with cand the deepest one seen so far.
RECURSIVE TrieNode_get_ancestor_rec(_, _, _)
TrieNode_get_ancestor_rec(self, q, cand) ==
    LET m == match_count(self.key, q) IN
    IF m < Len(self.key) THEN cand
    ELSE LET seen == IF is_some(self.key_value) THEN Some(self) ELSE cand IN
         IF m = Len(q) THEN seen
         ELSE LET child == self.children[q[m + 1]] IN
              IF is_none(child) THEN seen
              ELSE TrieNode_get_ancestor_rec(unwrap(child),
                                             SubSeq(q, m + 1, Len(q)), seen)

TrieNode_get_ancestor(self, q) == TrieNode_get_ancestor_rec(self, q, None)

\* The number of non-empty slots of a node.
count_slots(node) == Cardinality({i \in Nibbles : is_some(node.children[i])})

\* The integrity pass: [ok, counted], counted being the number of value-bearing
\* nodes of the subtree.  The root is the node reached with the empty prefix.
RECURSIVE check_integrity_recursive(_, _)
check_integrity_recursive(self, prefix) ==
    LET is_root == prefix = <<>> /\ self.key = <<>>
        trie_key == join(prefix, self.key)
        sub == [i \in {j \in Nibbles : is_some(self.children[j])} |->
                   check_integrity_recursive(unwrap(self.children[i]), trie_key)]
        i4 == self.child_count = count_slots(self)
        i3 == is_root \/ is_some(self.key_value) \/ count_slots(self) >= 2
        i1 == \A i \in DOMAIN sub :
                  /\ unwrap(self.children[i]).key # <<>>
                  /\ unwrap(self.children[i]).key[1] = i
        own == IF is_some(self.key_value) THEN 1 ELSE 0
        RECURSIVE sum(_)
        sum(S) == IF S = {} THEN 0
                  ELSE LET i == CHOOSE j \in S : TRUE IN
                       sub[i].counted + sum(S \ {i})
    IN  [ok |-> i4 /\ i3 /\ i1 /\ \A i \in DOMAIN sub : sub[i].ok,
         counted |-> own + sum(DOMAIN sub)]

(***************************************************************************)
(* The Trie facade.                                                        *)
(***************************************************************************)
Trie_new == [length |-> 0, node |-> TrieNode_new]

len(t) == t.length

\* Trie_get with the empty encoding taken for "no key": the root is not looked at.
Trie_get_nonempty(t, k) ==
    LET key_fragments == encode(k)
        n == TrieNode_get(t.node, key_fragments)
    IN  IF key_fragments # <<>> /\ is_some(n) THEN value_checked(unwrap(n), k)
        ELSE None

\* Trie_get with value() in the place of value_checked(key).
Trie_get_unchecked(t, k) ==
    LET key_fragments == encode(k)
        n == TrieNode_get(t.node, key_fragments)
    IN  IF is_some(n) THEN value(unwrap(n)) ELSE None

Trie_get(t, k) ==
    LET key_fragments == encode(k)
        n == TrieNode_get(t.node, key_fragments)
    IN  IF is_some(n) THEN value_checked(unwrap(n), k) ELSE None

Trie_get_mut(t, k) ==
    LET key_fragments == encode(k)
        n == TrieNode_get_mut(t.node, key_fragments)
    IN  IF is_some(n) THEN value_checked_mut(unwrap(n), k) ELSE None

\* Trie_insert without the test of result.is_none(): every insert counts.
Trie_insert_always_inc(t, k, v) ==
    LET key_fragments == encode(k)
        result == TrieNode_insert(t.node, k, v, key_fragments)
    IN  [trie |-> [length |-> t.length + 1, node |-> result.node],
         ret |-> result.ret]

\* [trie, ret]: the trie after the call and the value the call returns.
Trie_insert(t, k, v) ==
    LET key_fragments == encode(k)
        result == TrieNode_insert(t.node, k, v, key_fragments)
    IN  [trie |-> [length |-> IF is_none(result.ret) THEN t.length + 1
                              ELSE t.length,
                   node |-> result.node],
         ret |-> result.ret]

\* Trie_remove that leaves the length as it is.
Trie_remove_no_dec(t, k) ==
    LET removed == TrieNode_remove(t.node, k) IN
    [trie |-> [length |-> t.length, node |-> removed.node], ret |-> removed.ret]

\* Trie_remove without the test of removed.is_some(): every remove counts.
Trie_remove_always_dec(t, k) ==
    LET removed == TrieNode_remove(t.node, k) IN
    [trie |-> [length |-> t.length - 1, node |-> removed.node],
     ret |-> removed.ret]

\* Trie_remove that compacts the root as a parent compacts its child: a root
\* left without a value and with one child is replaced by that child.
Trie_remove_merging_root(t, k) ==
    LET removed == TrieNode_remove(t.node, k)
        root == removed.node
    IN  [trie |-> [length |-> IF is_some(removed.ret) THEN t.length - 1
                              ELSE t.length,
                   node |-> IF is_none(root.key_value) /\ root.child_count = 1
                            THEN [only_child(root) EXCEPT
                                      !.key = join(root.key, only_child(root).key)]
                            ELSE root],
         ret |-> removed.ret]

Trie_remove(t, k) ==
    LET removed == TrieNode_remove(t.node, k) IN
    [trie |-> [length |-> IF is_some(removed.ret) THEN t.length - 1
                          ELSE t.length,
               node |-> removed.node],
     ret |-> removed.ret]

\* A view: the prefix handed to new_subtrie and the node it borrows.
new_subtrie(prefix, node) == [prefix |-> prefix, node |-> node]

\* A mutable view also borrows the container's length counter.
new_subtrie_mut(prefix, length, node) ==
    [prefix |-> prefix, length |-> length, node |-> node]

\* Trie_subtrie with the node's get_ancestor in the place of its get.
Trie_subtrie_nearest(t, k) ==
    LET key_fragments == encode(k)
        n == TrieNode_get_ancestor(t.node, key_fragments)
    IN  IF is_some(n) THEN Some(new_subtrie(key_fragments, unwrap(n))) ELSE None

Trie_subtrie(t, k) ==
    LET key_fragments == encode(k)
        n == TrieNode_get(t.node, key_fragments)
    IN  IF is_some(n) THEN Some(new_subtrie(key_fragments, unwrap(n))) ELSE None

Trie_subtrie_mut(t, k) ==
    LET key_fragments == encode(k)
        n == TrieNode_get_mut(t.node, key_fragments)
    IN  IF is_some(n)
        THEN Some(new_subtrie_mut(key_fragments, t.length, unwrap(n)))
        ELSE None

\* Trie_get_ancestor with the node's get in the place of its get_ancestor.
Trie_get_ancestor_exact(t, k) ==
    LET key_fragments == encode(k)
        n == TrieNode_get(t.node, key_fragments)
    IN  IF is_some(n) THEN Some(new_subtrie(key_fragments, unwrap(n))) ELSE None

Trie_get_ancestor(t, k) ==
    LET key_fragments == encode(k)
        n == TrieNode_get_ancestor(t.node, key_fragments)
    IN  IF is_some(n) THEN Some(new_subtrie(key_fragments, unwrap(n))) ELSE None

Trie_get_ancestor_value(t, k) ==
    LET a == Trie_get_ancestor(t, k) IN
    IF is_some(a) THEN value(unwrap(a).node) ELSE None

\* Trie_check_integrity without the comparison of the count with the length.
Trie_check_integrity_no_length(t) ==
    check_integrity_recursive(t.node, <<>>).ok

Trie_check_integrity(t) ==
    LET r == check_integrity_recursive(t.node, <<>>) IN
    r.ok /\ r.counted = t.length

\* The write through the &mut V that get_mut gave for the node at path q: the
\* value of that node becomes v, nothing else changes.
RECURSIVE write_through(_, _, _)
write_through(self, q, v) ==
    LET m == match_count(self.key, q) IN
    IF m = Len(q) THEN
        [self EXCEPT !.key_value =
            Some(KeyValue(unwrap(self.key_value).key, v))]
    ELSE LET idx == q[m + 1] IN
         [self EXCEPT !.children[idx] =
             Some(write_through(unwrap(self.children[idx]),
                                SubSeq(q, m + 1, Len(q)), v))]

\* map_with_default without the return after f(v): default is stored as well.
Trie_map_with_default_no_return(t, k, f, default) ==
    [trie |-> Trie_insert(t, k, default).trie,
     calls |-> IF is_some(Trie_get_mut(t, k)) THEN 1 ELSE 0]

\* [trie, calls]: the trie after the call and the number of calls of f.
Trie_map_with_default(t, k, f, default) ==
    LET v == Trie_get_mut(t, k) IN
    IF is_some(v)
    THEN [trie |-> [t EXCEPT !.node = write_through(t.node, encode(k), f[unwrap(v)])],
          calls |-> 1]
    ELSE [trie |-> Trie_insert(t, k, default).trie, calls |-> 0]

(***************************************************************************)
(* The entry iterator.                                                     *)
(***************************************************************************)
\* A ChildIter: the slots of a node and the position of the slice iterator.
child_iter(node) == [children |-> node.children, pos |-> 0]

\* next() of a ChildIter that walks the slots from the last one down.
ChildIter_next_descending(ci) ==
    LET rest == {i \in Nibbles : i < BRANCH_FACTOR - ci.pos /\ is_some(ci.children[i])} IN
    IF rest = {} THEN [iter |-> [ci EXCEPT !.pos = BRANCH_FACTOR], ret |-> None]
    ELSE LET i == CHOOSE x \in rest : \A y \in rest : x >= y IN
         [iter |-> [ci EXCEPT !.pos = BRANCH_FACTOR - i], ret |-> ci.children[i]]

\* next() of a ChildIter: the first non-empty slot at or after pos.
ChildIter_next(ci) ==
    LET rest == {i \in Nibbles : i >= ci.pos /\ is_some(ci.children[i])} IN
    IF rest = {} THEN [iter |-> [ci EXCEPT !.pos = BRANCH_FACTOR], ret |-> None]
    ELSE LET i == CHOOSE x \in rest : \A y \in rest : x <= y IN
         [iter |-> [ci EXCEPT !.pos = i + 1], ret |-> ci.children[i]]

kv_as_pair(node) == node.key_value

Iter_new(root) == [root |-> root, root_visited |-> FALSE, stack |-> <<>>]

\* The loop of Iter::next: advance the top ChildIter, push the child it gives
\* and return the child's pair if it has one; pop an exhausted ChildIter.
RECURSIVE Iter_loop(_)
Iter_loop(it) ==
    IF it.stack = <<>> THEN [iter |-> it, ret |-> None]
    ELSE
        LET n == Len(it.stack)
            step == ChildIter_next(it.stack[n])
            advanced == [it.stack EXCEPT ![n] = step.iter]
        IN  IF is_some(step.ret) THEN
                LET child == unwrap(step.ret)
                    pushed == [it EXCEPT !.stack = Append(advanced, child_iter(child))]
                IN  IF is_some(kv_as_pair(child))
                    THEN [iter |-> pushed, ret |-> kv_as_pair(child)]
                    ELSE Iter_loop(pushed)
            ELSE Iter_loop([it EXCEPT !.stack = SubSeq(advanced, 1, n - 1)])

\* Iter::next that marks the root visited without returning its pair.
Iter_next_skip_root(it) ==
    IF ~it.root_visited THEN
        Iter_loop([it EXCEPT !.root_visited = TRUE,
                             !.stack = Append(@, child_iter(it.root))])
    ELSE Iter_loop(it)

\* Iter::next that starts over from the root once its stack is empty.
Iter_next_restart(it) ==
    IF ~it.root_visited \/ it.stack = <<>> THEN
        LET visited == [it EXCEPT !.root_visited = TRUE,
                                  !.stack = Append(@, child_iter(it.root))]
        IN  IF is_some(kv_as_pair(it.root))
            THEN [iter |-> visited, ret |-> kv_as_pair(it.root)]
            ELSE Iter_loop(visited)
    ELSE Iter_loop(it)

\* Iter::next: [iter, ret].
Iter_next(it) ==
    IF ~it.root_visited THEN
        LET visited == [it EXCEPT !.root_visited = TRUE,
                                  !.stack = Append(@, child_iter(it.root))]
        IN  IF is_some(kv_as_pair(it.root))
            THEN [iter |-> visited, ret |-> kv_as_pair(it.root)]
            ELSE Iter_loop(visited)
    ELSE Iter_loop(it)

(***************************************************************************)
(* The state machine.                                                      *)
(*   trie     the container                                                *)
(*   last     the last call and the value it returned                      *)
(*   iter     the live entry iterator, if any (it borrows the trie, so no  *)
(*            mutation happens while it lives)                            *)
(*   yielded  the pairs the live iterator has returned so far              *)
(*   batch    history: the run of the calls since Trie::new, as            *)
(*            insert_all_remove_all makes them: "insert_all" while only    *)
(*            pairs with new keys were inserted (E: those pairs),          *)
(*            "remove_all" while keys are removed after that (E: the pairs *)
(*            whose key was not removed yet), "mixed" otherwise (any other *)
(*            order of calls, or a run in which an iterator was made)      *)
(*   ref      history: a reference map from encodings to the pair stored   *)
(*            last under a key of that encoding and not removed since      *)
(***************************************************************************)
VARIABLES trie, last, iter, yielded, batch, ref

vars == <<trie, last, iter, yielded, batch, ref>>

\* The functions handed to map_with_default: the swap of the two values and a
\* constant function.
Fns == {[v \in Values |-> 3 - v], [v \in Values |-> 1]}

Encodings == {encode(k) : k \in Keys}

RefEmpty == [e \in Encodings |-> None]

RefInsert(m, k, v) == [m EXCEPT ![encode(k)] = Some(KeyValue(k, v))]

RefRemove(m, k) ==
    IF is_some(m[encode(k)]) /\ unwrap(m[encode(k)]).key = k
    THEN [m EXCEPT ![encode(k)] = None]
    ELSE m

RefGet(m, k) ==
    IF encode(k) \in DOMAIN m /\ is_some(m[encode(k)])
           /\ unwrap(m[encode(k)]).key = k
    THEN Some(unwrap(m[encode(k)]).value)
    ELSE None

Untracked == [phase |-> "mixed", E |-> {}]

Init ==
    /\ trie = Trie_new
    /\ last = [op |-> "new", ret |-> None]
    /\ iter = None
    /\ yielded = <<>>
    /\ batch = [phase |-> "insert_all", E |-> {}]
    /\ ref = RefEmpty

New ==
    /\ iter = None
    /\ trie' = Trie_new
    /\ last' = [op |-> "new", ret |-> None]
    /\ batch' = [phase |-> "insert_all", E |-> {}]
    /\ ref' = RefEmpty
    /\ UNCHANGED <<iter, yielded>>

Insert ==
    \E k \in Keys, v \in Values :
        LET r == Trie_insert(trie, k, v) IN
        /\ iter = None
        /\ r.trie.length <= MaxEntries
        /\ trie' = r.trie
        /\ last' = [op |-> "insert", ret |-> r.ret]
        /\ batch' = IF batch.phase = "insert_all" /\ \A e \in batch.E : e.key # k
                    THEN [batch EXCEPT !.E = @ \cup {KeyValue(k, v)}]
                    ELSE Untracked
        /\ ref' = RefInsert(ref, k, v)
        /\ UNCHANGED <<iter, yielded>>

Remove ==
    \E k \in Keys :
        LET r == Trie_remove(trie, k) IN
        /\ iter = None
        /\ trie' = r.trie
        /\ last' = [op |-> "remove", ret |-> r.ret]
        /\ batch' = IF batch.phase = "mixed" THEN Untracked
                    ELSE [phase |-> "remove_all",
                          E |-> {e \in batch.E : e.key # k}]
        /\ ref' = RefRemove(ref, k)
        /\ UNCHANGED <<iter, yielded>>

MapWithDefault ==
    \E k \in Keys, f \in Fns, default \in Values :
        LET r == Trie_map_with_default(trie, k, f, default) IN
        /\ iter = None
        /\ r.trie.length <= MaxEntries
        /\ trie' = r.trie
        /\ last' = [op |-> "map_with_default", ret |-> None]
        /\ batch' = Untracked
        /\ ref' = IF is_some(RefGet(ref, k))
                  THEN RefInsert(ref, k, f[unwrap(RefGet(ref, k))])
                  ELSE RefInsert(ref, k, default)
        /\ UNCHANGED <<iter, yielded>>

IterNew ==
    /\ iter = None
    /\ iter' = Some(Iter_new(trie.node))
    /\ yielded' = <<>>
    /\ last' = [op |-> "iter", ret |-> None]
    /\ batch' = Untracked
    /\ UNCHANGED <<trie, ref>>

IterNext ==
    /\ is_some(iter)
    /\ LET r == Iter_next(unwrap(iter)) IN
       /\ iter' = Some(r.iter)
       /\ yielded' = IF is_some(r.ret) THEN Append(yielded, unwrap(r.ret))
                     ELSE yielded
       /\ last' = [op |-> "next",
                   ret |-> IF is_some(r.ret) THEN Some(unwrap(r.ret).value)
                           ELSE None]
    /\ UNCHANGED <<trie, batch, ref>>

IterDrop ==
    /\ is_some(iter)
    /\ iter' = None
    /\ yielded' = <<>>
    /\ last' = [op |-> "drop", ret |-> None]
    /\ UNCHANGED <<trie, batch, ref>>

Next ==
    New \/ Insert \/ Remove \/ MapWithDefault \/ IterNew \/ IterNext \/ IterDrop

Spec == Init /\ [][Next]_vars

(***************************************************************************)
(* Vocabulary of the properties.                                           *)
(***************************************************************************)
\* Every node of the subtree of node, with the nibble path from the root to it
\* (the fragments joined) and whether it is the root.
RECURSIVE NodesUnder(_, _, _)
NodesUnder(node, prefix, root) ==
    LET path == join(prefix, node.key) IN
    {[path |-> path, node |-> node, root |-> root]}
        \cup UNION {NodesUnder(unwrap(node.children[i]), path, FALSE) :
                        i \in {j \in Nibbles : is_some(node.children[j])}}

Nodes(t) == NodesUnder(t.node, <<>>, TRUE)

\* The nodes that carry a key_value, and the pairs they carry.
ValueNodes(t) == {n \in Nodes(t) : is_some(n.node.key_value)}

Entries(t) == {unwrap(n.node.key_value) : n \in ValueNodes(t)}

\* No pair of t is held under key k / at the encoding of k.
NotStored(t, k) == \A e \in Entries(t) : e.key # k

NothingAt(t, k) == \A e \in Entries(t) : encode(e.key) # encode(k)

\* The keys of E have pairwise distinct encodings.
DistinctEncodings(E) ==
    \A e1, e2 \in E : e1.key # e2.key => encode(e1.key) # encode(e2.key)

\* The keys asked for: the keys of the sample and three keys that are never
\* inserted, two of them longer than every stored key.
Queries ==
    Keys \cup {[bytes |-> b, tag |-> 0] : b \in {<<0, 0>>, <<0, 1, 1>>, <<16, 0>>}}

\* The live iterator has returned None: it is exhausted.
Exhausted == is_some(iter) /\ unwrap(iter).root_visited /\ unwrap(iter).stack = <<>>

(***************************************************************************)
(* C1.                                                                     *)
(***************************************************************************)
\* C1 as stated: after inserting the pairs of any set E with distinct keys into
\* an empty trie, get(k) = Some(v) for every (k, v) of E.
C1_InsertThenGet_DistinctKeys ==
    batch.phase = "insert_all" =>
        \A e \in batch.E : Trie_get(trie, e.key) = Some(e.value)

\* C1 (amended): after inserting the pairs of a set E whose keys have pairwise
\* distinct encodings into an empty trie, in any order, get(k) = Some(v) for
\* every (k, v) of E.
C1_InsertThenGet ==
    (batch.phase = "insert_all" /\ DistinctEncodings(batch.E)) =>
        \A e \in batch.E : Trie_get(trie, e.key) = Some(e.value)

C1_Witness ==
    /\ batch.phase = "insert_all"
    /\ DistinctEncodings(batch.E)
    /\ Cardinality(batch.E) = MaxEntries
    /\ last.op = "insert"

(***************************************************************************)
(* C2.                                                                     *)
(***************************************************************************)
\* I5: the cached length is the number of nodes that carry a key_value.
LengthCounts == len(trie) = Cardinality(ValueNodes(trie))

\* C2 as stated: len() is the number of key_value-bearing nodes; it is |E| after
\* inserting all of a set E of pairs with distinct keys, and 0 after then
\* removing all of E.
C2_Length_DistinctKeys ==
    /\ LengthCounts
    /\ batch.phase = "insert_all" => len(trie) = Cardinality(batch.E)
    /\ (batch.phase = "remove_all" /\ batch.E = {}) => len(trie) = 0

\* C2 (amended): len() is the number of key_value-bearing nodes; after inserting
\* all of E it is the number of distinct encodings of the keys of E (|E| when
\* they are pairwise distinct), and it is 0 after then removing all of E.
C2_Length ==
    /\ LengthCounts
    /\ batch.phase = "insert_all" =>
           len(trie) = Cardinality({encode(e.key) : e \in batch.E})
    /\ (batch.phase = "insert_all" /\ DistinctEncodings(batch.E)) =>
           len(trie) = Cardinality(batch.E)
    /\ (batch.phase = "remove_all" /\ batch.E = {}) => len(trie) = 0

C2_Witness ==
    /\ batch.phase = "remove_all"
    /\ batch.E = {}
    /\ last.op = "remove"
    /\ is_some(last.ret)
    /\ len(trie) = 0

(***************************************************************************)
(* C3.                                                                     *)
(***************************************************************************)
\* I4, I1 and I3, read off the tree.
ChildCountsMatch == \A n \in Nodes(trie) : n.node.child_count = count_slots(n.node)

SlotsMatchFragments ==
    \A n \in Nodes(trie) : \A i \in Nibbles :
        is_some(n.node.children[i]) =>
            /\ unwrap(n.node.children[i]).key # <<>>
            /\ unwrap(n.node.children[i]).key[1] = i

BranchesHaveTwoChildren ==
    \A n \in Nodes(trie) :
        (~n.root /\ is_none(n.node.key_value)) => count_slots(n.node) >= 2

\* C3: after every sequence of inserts and removes check_integrity() is true,
\* every child_count is the number of non-empty slots (I4), every child sits in
\* the slot of the first nibble of its fragment (I1), and every non-root node
\* without a key_value has at least two children (I3).
C3_Integrity ==
    /\ Trie_check_integrity(trie)
    /\ ChildCountsMatch
    /\ SlotsMatchFragments
    /\ BranchesHaveTwoChildren

\* A removal has just merged or vacated below a value-less branch that stays.
C3_Witness ==
    /\ last.op = "remove"
    /\ is_some(last.ret)
    /\ \E n \in Nodes(trie) : ~n.root /\ is_none(n.node.key_value)

(***************************************************************************)
(* C4.                                                                     *)
(***************************************************************************)
\* insert(k, v) and then remove(k) returns Some(v) and gives back the trie t.
InsertRemoveRestores(t, k, v) ==
    LET a == Trie_insert(t, k, v)
        b == Trie_remove(a.trie, k)
    IN  b.ret = Some(v) /\ b.trie = t

\* C4 as stated: from any reachable trie without the key k, insert(k, v) then
\* remove(k) returns Some(v) and leaves the trie structurally equal.
C4_RemoveInvertsInsert_KeyAbsent ==
    \A k \in Keys, v \in Values :
        NotStored(trie, k) => InsertRemoveRestores(trie, k, v)

\* C4 (amended): from any reachable trie with no entry at encode(k),
\* insert(k, v) then remove(k) returns Some(v) and leaves the trie structurally
\* equal (nodes, fragments, key_values, child slots, length).
C4_RemoveInvertsInsert ==
    \A k \in Keys, v \in Values :
        NothingAt(trie, k) => InsertRemoveRestores(trie, k, v)

\* A trie an insert of an absent key would split, reached by a removal.
C4_Witness ==
    /\ last.op = "remove"
    /\ is_some(last.ret)
    /\ len(trie) >= 2
    /\ \E k \in Keys :
           /\ NothingAt(trie, k)
           /\ Cardinality(Nodes(Trie_insert(trie, k, 1).trie))
                  = Cardinality(Nodes(trie)) + 2

(***************************************************************************)
(* C5.                                                                     *)
(***************************************************************************)
\* C5: removing a key that is not stored (nothing at its encoding, or another
\* key with the same encoding) returns None and changes nothing, and get of
\* it is None.
C5_RemoveAbsent ==
    \A k \in Queries :
        NotStored(trie, k) =>
            /\ Trie_remove(trie, k) = [trie |-> trie, ret |-> None]
            /\ Trie_get(trie, k) = None

\* A removal found another key at the encoding of its key, and returned None.
C5_Witness ==
    /\ last.op = "remove"
    /\ is_none(last.ret)
    /\ \E e \in Entries(trie) : \E k \in Keys :
           k # e.key /\ encode(k) = encode(e.key)
    /\ \E n \in Nodes(trie) : ~n.root /\ is_none(n.node.key_value)

(***************************************************************************)
(* C6.                                                                     *)
(***************************************************************************)
\* C6: insert(k, v) then insert(k, v2): the second call returns Some(v), get(k)
\* is Some(v2) and len is as after the first call; an insert adds one to len
\* exactly when it returns None.
C6_InsertOverwrites ==
    \A k \in Keys, v \in Values, v2 \in Values :
        LET a == Trie_insert(trie, k, v)
            b == Trie_insert(a.trie, k, v2)
        IN  /\ b.ret = Some(v)
            /\ Trie_get(b.trie, k) = Some(v2)
            /\ len(b.trie) = len(a.trie)
            /\ len(a.trie) = len(trie) + (IF is_none(a.ret) THEN 1 ELSE 0)

C6_Witness ==
    /\ last.op = "insert"
    /\ is_some(last.ret)
    /\ len(trie) = MaxEntries

(***************************************************************************)
(* C7.                                                                     *)
(***************************************************************************)
Range(f) == {f[i] : i \in DOMAIN f}

\* What Keys and Values give: the first and the second of each pair of Iter.
keys_of(ys) == [i \in DOMAIN ys |-> ys[i].key]

values_of(ys) == [i \in DOMAIN ys |-> ys[i].value]

AncestorsOf(t, k) == {n \in ValueNodes(t) : IsPrefix(n.path, encode(k))}

\* C8: get_ancestor(k) is None exactly when no value-bearing node lies on a
\* prefix of encode(k); otherwise its node carries a value and is the deepest
\* such node.
C8_AncestorSemantics ==
    \A k \in Queries :
        LET a == Trie_get_ancestor(trie, k)
            c == AncestorsOf(trie, k)
        IN  /\ is_none(a) <=> c = {}
            /\ is_some(a) =>
                   /\ is_some(unwrap(a).node.key_value)
                   /\ Trie_get_ancestor_value(trie, k) = value(unwrap(a).node)
                   /\ \E n \in c :
                          /\ n.node = unwrap(a).node
                          /\ \A m \in c : Len(m.path) <= Len(n.path)

\* A query whose path leads to a node without a value, so that the ancestor
\* returned lies strictly above a node of the tree.
C8_Witness ==
    \E k \in Queries :
        /\ AncestorsOf(trie, k) # {}
        /\ \A n \in AncestorsOf(trie, k) : n.path # encode(k)
        /\ is_some(Trie_subtrie(trie, k))
        /\ is_none(value(unwrap(Trie_subtrie(trie, k)).node))
        /\ is_some(Trie_get_ancestor(trie, k))

(***************************************************************************)
(* C9.                                                                     *)
(***************************************************************************)
\* The view's prefix is the path of the view's node.
PrefixIsPath(t, view) ==
    \E n \in Nodes(t) : n.node = view.node /\ n.path = view.prefix

\* C9: the prefix of every view subtrie, subtrie_mut and get_ancestor return
\* is the nibble path from the root to the view's node.
C9_ViewPrefixIsPath ==
    \A k \in Queries :
        /\ is_some(Trie_subtrie(trie, k)) =>
               PrefixIsPath(trie, unwrap(Trie_subtrie(trie, k)))
        /\ is_some(Trie_subtrie_mut(trie, k)) =>
               PrefixIsPath(trie, unwrap(Trie_subtrie_mut(trie, k)))
        /\ is_some(Trie_get_ancestor(trie, k)) =>
               PrefixIsPath(trie, unwrap(Trie_get_ancestor(trie, k)))

(***************************************************************************)
(* C10.                                                                    *)
(***************************************************************************)
\* C10: of two distinct keys with one encoding only one is stored at a time:
\* insert(k1, v1) then insert(k2, v2) makes the second call return Some(v1)
\* with len unchanged, and get and get_mut of a key that is not the stored one
\* but has its encoding are None.
C10_EncodingCollisions ==
    /\ \A e1, e2 \in Entries(trie) :
           encode(e1.key) = encode(e2.key) => e1 = e2
    /\ \A e \in Entries(trie) : \A k \in Queries :
           (encode(k) = encode(e.key) /\ k # e.key) =>
               Trie_get(trie, k) = None /\ Trie_get_mut(trie, k) = None
    /\ \A k1, k2 \in Keys, v1, v2 \in Values :
           (k1 # k2 /\ encode(k1) = encode(k2)) =>
               LET a == Trie_insert(trie, k1, v1)
                   b == Trie_insert(a.trie, k2, v2)
               IN  /\ b.ret = Some(v1)
                   /\ len(b.trie) = len(a.trie)
                   /\ Trie_get(b.trie, k1) = None
                   /\ Trie_get_mut(b.trie, k1) = None
                   /\ Trie_get(b.trie, k2) = Some(v2)

\* In a run of inserts of new keys only, an insert returned a value: it took
\* the place of the other key with its encoding.
C10_Witness ==
    /\ batch.phase = "insert_all"
    /\ last.op = "insert"
    /\ is_some(last.ret)
    /\ ~DistinctEncodings(batch.E)

(***************************************************************************)
(* C11.                                                                    *)
(***************************************************************************)
\* C11: map_with_default(k, f, default) on a trie that no iterator borrows: if
\* a value is held at k, f is applied to it in place, once, and nothing else
\* changes (len, the value of every other key, the nodes' paths); otherwise
\* default is inserted at k and f is not called, get(k) is Some(default)
\* afterwards, and len grows by one when nothing was stored at encode(k).
C11_MapWithDefault ==
    iter = None =>
        LET before == [q \in Queries |-> Trie_get(trie, q)]
            paths == {n.path : n \in Nodes(trie)}
        IN  \A k \in Keys, f \in Fns, default \in Values :
                LET r == Trie_map_with_default(trie, k, f, default)
                    old == before[k]
                IN  IF is_some(old) THEN
                        /\ r.calls = 1
                        /\ Trie_get(r.trie, k) = Some(f[unwrap(old)])
                        /\ len(r.trie) = len(trie)
                        /\ \A q \in Queries \ {k} : Trie_get(r.trie, q) = before[q]
                        /\ {n.path : n \in Nodes(r.trie)} = paths
                    ELSE
                        /\ r.calls = 0
                        /\ Trie_get(r.trie, k) = Some(default)
                        /\ r.trie = Trie_insert(trie, k, default).trie
                        /\ NothingAt(trie, k) =>
                               /\ len(r.trie) = len(trie) + 1
                               /\ \A q \in Queries \ {k} :
                                      Trie_get(r.trie, q) = before[q]

\* map_with_default has run and the trie is full, with a branch in it.
C11_Witness ==
    /\ last.op = "map_with_default"
    /\ len(trie) = MaxEntries
    /\ \E n \in Nodes(trie) : ~n.root /\ is_none(n.node.key_value)

(***************************************************************************)
(* C12.                                                                    *)
(***************************************************************************)
\* C12: subtrie(k) returns a view exactly when some node's path from the root
\* equals encode(k), and the view's node is that node; for a stored key the
\* node's value is the key's value; for a key whose encoding is the encoding
\* of no stored key a returned node has no value.
C12_Subtrie ==
    \A k \in Queries :
        LET s == Trie_subtrie(trie, k) IN
        /\ is_some(s) <=> \E n \in Nodes(trie) : n.path = encode(k)
        /\ is_some(s) =>
               \E n \in Nodes(trie) : n.path = encode(k) /\ n.node = unwrap(s).node
        /\ is_some(Trie_get(trie, k)) =>
               is_some(s) /\ value(unwrap(s).node) = Trie_get(trie, k)
        /\ (is_some(s) /\ \A e \in Entries(trie) : encode(e.key) # encode(k)) =>
               is_none(unwrap(s).node.key_value)

\* subtrie finds a value-less branch below the root for one key, the node of a
\* stored key for another, and nothing for a third one whose encoding leaves
\* a stored key's path inside a fragment.
C12_Witness ==
    /\ \E k \in Queries :
           /\ encode(k) # <<>>
           /\ is_some(Trie_subtrie(trie, k))
           /\ is_none(unwrap(Trie_subtrie(trie, k)).node.key_value)
    /\ \E k \in Queries :
           /\ is_some(Trie_get(trie, k))
           /\ value(unwrap(Trie_subtrie(trie, k)).node) = Trie_get(trie, k)
    /\ \E k \in Queries :
           /\ is_none(Trie_subtrie(trie, k))
           /\ \E e \in Entries(trie) : match_count(encode(k), encode(e.key)) > 2

(***************************************************************************)
(* C13.                                                                    *)
(***************************************************************************)
\* C13: path invariant I6: after every sequence of inserts and removes, the
\* encoding of every stored key is the concatenation of the fragments along
\* the path from the root to the node that holds it.
C13_PathInvariant ==
    \A n \in ValueNodes(trie) : encode(unwrap(n.node.key_value).key) = n.path

\* A remove has taken a pair out and has left a value-less branch below the
\* root whose fragment is two nibbles long, above a stored key of two bytes.
C13_Witness ==
    /\ last.op = "remove"
    /\ is_some(last.ret)
    /\ \E n \in Nodes(trie) :
           ~n.root /\ is_none(n.node.key_value) /\ Len(n.node.key) = 2
    /\ \E n \in ValueNodes(trie) : Len(n.path) = 4

(***************************************************************************)
(* C14.                                                                    *)
(***************************************************************************)
\* The lookup in the reference map by the encoding alone.
RefGetByEncoding(m, k) ==
    IF encode(k) \in DOMAIN m /\ is_some(m[encode(k)])
    THEN Some(unwrap(m[encode(k)]).value)
    ELSE None

\* C14 as stated: insert(k, v) and remove(k) leave get(k') unchanged for every
\* k' of another encoding, after a remove(k) that returns Some get(k) is None,
\* and get(k) is what a reference map keyed by encoding holds at encode(k).
C14_Frame_ByEncodingOnly ==
    \A k \in Queries : Trie_get(trie, k) = RefGetByEncoding(ref, k)

\* C14: insert(k, v) and remove(k) leave get(k') unchanged for every k' of
\* another encoding; after a remove(k) that returns Some, get(k) is None; and
\* get(k) agrees with a reference map that holds, for each encoding, the key
\* stored last under it with its value, and answers None to another key of
\* that encoding.
C14_Frame ==
    LET before == [q \in Queries |-> Trie_get(trie, q)] IN
    /\ \A q \in Queries : before[q] = RefGet(ref, q)
    /\ iter = None =>
           \A k \in Keys :
               LET rm == Trie_remove(trie, k)
                   others == {q \in Queries : encode(q) # encode(k)}
               IN  /\ is_some(rm.ret) => is_none(Trie_get(rm.trie, k))
                   /\ \A q \in others : Trie_get(rm.trie, q) = before[q]
                   /\ \A v \in Values :
                          LET ins == Trie_insert(trie, k, v) IN
                          \A q \in others : Trie_get(ins.trie, q) = before[q]

\* A remove has taken a pair out, two pairs are left, and one of them sits at
\* an encoding that another key shares.
C14_Witness ==
    /\ last.op = "remove"
    /\ is_some(last.ret)
    /\ len(trie) = 2
    /\ \E k \in Keys : is_none(Trie_get(trie, k)) /\ is_some(ref[encode(k)])

(***************************************************************************)
(* C15.                                                                    *)
(***************************************************************************)
\* The pairs of the subtree of node in pre-order: the node's own pair, then
\* the subtrees of its children from slot i on, in ascending slot order.
RECURSIVE PreOrderFrom(_, _)
PreOrderFrom(node, i) ==
    IF i = BRANCH_FACTOR THEN <<>>
    ELSE (IF is_some(node.children[i])
          THEN LET c == unwrap(node.children[i]) IN
               (IF is_some(c.key_value) THEN <<unwrap(c.key_value)>> ELSE <<>>)
                   \o PreOrderFrom(c, 0)
          ELSE <<>>)
         \o PreOrderFrom(node, i + 1)

PreOrder(t) ==
    (IF is_some(t.node.key_value) THEN <<unwrap(t.node.key_value)>> ELSE <<>>)
        \o PreOrderFrom(t.node, 0)

\* Path p comes before path q in pre-order: p is a proper prefix of q, or p
\* has the smaller nibble where the two first differ.
PathBefore(p, q) ==
    LET m == match_count(p, q) IN
    \/ m = Len(p) /\ m < Len(q)
    \/ m < Len(p) /\ m < Len(q) /\ p[m + 1] < q[m + 1]

\* The path of the node that holds pair e.
PathOf(t, e) ==
    (CHOOSE n \in ValueNodes(t) : unwrap(n.node.key_value) = e).path

\* C15: iteration is pre-order depth-first: the pairs come in the order of the
\* pre-order listing (the root's own pair first, a node before its
\* descendants, the children's subtrees in ascending slot order, each whole
\* subtree before the next sibling), and a full run gives the whole listing.
C15_PreOrder ==
    is_some(iter) =>
        /\ Len(yielded) <= Len(PreOrder(trie))
        /\ yielded = SubSeq(PreOrder(trie), 1, Len(yielded))
        /\ \A i, j \in DOMAIN yielded :
               i < j => PathBefore(PathOf(trie, yielded[i]), PathOf(trie, yielded[j]))
        /\ (is_some(trie.node.key_value) /\ yielded # <<>>) =>
               yielded[1] = unwrap(trie.node.key_value)
        /\ Exhausted => yielded = PreOrder(trie)

\* A full run over a trie that holds a pair at the root, a value-less branch
\* below it with a pair underneath, and a pair in a later slot.
C15_Witness ==
    /\ Exhausted
    /\ Len(yielded) = 3
    /\ yielded[1] = unwrap(trie.node.key_value)
    /\ \E b \in Nodes(trie) :
           /\ ~b.root
           /\ is_none(b.node.key_value)
           /\ IsPrefix(b.path, PathOf(trie, yielded[2]))
    /\ PathOf(trie, yielded[2])[2] < PathOf(trie, yielded[3])[2]

(***************************************************************************)
(* C16.                                                                    *)
(***************************************************************************)
\* C16: the root is never merged away: after every sequence of calls the
\* root's fragment is empty, also when the root has no value and one child or
\* none, and a trie from which every key was removed is the trie of
\* Trie::new().
C16_RootPersists ==
    /\ trie.node.key = <<>>
    /\ Entries(trie) = {} => trie = Trie_new
    /\ \A k \in Keys :
           LET r == Trie_remove(trie, k) IN
           /\ r.trie.node.key = <<>>
           /\ Entries(r.trie) = {} => r.trie = Trie_new

\* A remove has left a root without a value and with exactly one child, which
\* holds the one pair left in a fragment of four nibbles.
C16_Witness ==
    /\ last.op = "remove"
    /\ is_some(last.ret)
    /\ is_none(trie.node.key_value)
    /\ trie.node.child_count = 1
    /\ \E n \in ValueNodes(trie) : Len(n.node.key) = 4
    /\ len(trie) = 1

(***************************************************************************)
(* C17.                                                                    *)
(***************************************************************************)
\* The trie made from Trie::new() by inserting the pairs of E in one fixed
\* order.
RECURSIVE Build(_)
Build(E) ==
    IF E = {} THEN Trie_new
    ELSE LET e == CHOOSE x \in E : TRUE IN
         Trie_insert(Build(E \ {e}), e.key, e.value).trie

\* C17: canonical shape: the tree depends only on the set of stored pairs:
\* whatever sequence of calls led to it, the trie is the one that inserting
\* its stored pairs into Trie::new() gives (same nodes, fragments, slots and
\* length), so two histories that end with the same pairs end with equal tries.
C17_CanonicalShape ==
    /\ trie = Build(Entries(trie))
    /\ \A k \in Keys :
           LET r == Trie_remove(trie, k) IN r.trie = Build(Entries(r.trie))

\* A remove has taken one of two keys with a common prefix out: no value-less
\* branch is left below the root and the other key sits in one node with a
\* fragment of four nibbles, next to the pair of the root.
C17_Witness ==
    /\ last.op = "remove"
    /\ is_some(last.ret)
    /\ len(trie) = 2
    /\ is_some(trie.node.key_value)
    /\ \A n \in Nodes(trie) : is_some(n.node.key_value)
    /\ \E n \in ValueNodes(trie) : Len(n.node.key) = 4

(***************************************************************************)
(* C18.                                                                    *)
(***************************************************************************)
\* The height of the subtree of node, in edges.
RECURSIVE Height(_)
Height(node) ==
    LET below == {Height(unwrap(node.children[i])) :
                      i \in {j \in Nibbles : is_some(node.children[j])}}
    IN  IF below = {} THEN 0
        ELSE 1 + CHOOSE h \in below : \A g \in below : g <= h

\* C18: the iterator terminates: a call of next returns Some exactly while
\* fewer pairs were yielded than there are value-bearing nodes, so None comes
\* after exactly that many Some results; the call that returns None leaves the
\* stack empty, every later call returns None and leaves the iterator as it
\* is, and the stack is never deeper than the height of the tree plus one.
C18_IterTerminates ==
    is_some(iter) =>
        LET it == unwrap(iter)
            r == Iter_next(it)
            N == Cardinality(ValueNodes(trie))
        IN  /\ Len(it.stack) <= Height(trie.node) + 1
            /\ Len(r.iter.stack) <= Height(trie.node) + 1
            /\ Len(yielded) <= N
            /\ is_some(r.ret) <=> Len(yielded) < N
            /\ is_none(r.ret) => r.iter.root_visited /\ r.iter.stack = <<>>
            /\ Exhausted => is_none(r.ret) /\ r.iter = it

\* A run over a tree of height two has ended with None after three pairs.
C18_Witness ==
    /\ Exhausted
    /\ last.op = "next"
    /\ is_none(last.ret)
    /\ Len(yielded) = 3
    /\ Height(trie.node) = 2

\* The stack of the live iterator is as deep as the bound allows.
C18_StackAtBound ==
    /\ is_some(iter)
    /\ Height(trie.node) = 2
    /\ Len(unwrap(iter).stack) = Height(trie.node) + 1

(***************************************************************************)
(* C19.                                                                    *)
(* check_integrity is a diagnostic for states that no call produces, so    *)
(* it is checked in a second state machine in which one fault is put into  *)
(* a trie that inserts and removes have built.                             *)
(***************************************************************************)
\* The trees that differ from node by one fault at one node of its subtree:
\* a child_count that is one too high, a child moved to the next slot with
\* its fragment unchanged, a stored key replaced by a key of another
\* encoding, or the key_value dropped from a node below the root that has
\* fewer than two children.
RECURSIVE Faults(_, _, _)
Faults(node, prefix, root) ==
    LET path == join(prefix, node.key)
        used == {i \in Nibbles : is_some(node.children[i])}
        wrong_count == {[node EXCEPT !.child_count = @ + 1]}
        wrong_slot ==
            {[node EXCEPT ![ "children" ][i] = None,
                          ![ "children" ][(i + 1) % BRANCH_FACTOR] = node.children[i]] :
                 i \in {j \in used : (j + 1) % BRANCH_FACTOR \notin used}}
        wrong_key ==
            IF is_some(node.key_value)
            THEN {[node EXCEPT !.key_value =
                       Some(KeyValue(k, unwrap(node.key_value).value))] :
                      k \in {x \in Keys : encode(x) # path}}
            ELSE {}
        no_value ==
            IF ~root /\ is_some(node.key_value) /\ Cardinality(used) < 2
            THEN {[node EXCEPT !.key_value = None]}
            ELSE {}
        below ==
            UNION {{[node EXCEPT !.children[i] = Some(c)] :
                        c \in Faults(unwrap(node.children[i]), path, FALSE)} :
                   i \in used}
    IN  wrong_count \cup wrong_slot \cup wrong_key \cup no_value \cup below

\* One fault in the tree (the length is the count of the pairs left, so that
\* the fault is the only one), or a length that is one too high.
Corrupt ==
    /\ last.op \in {"insert", "remove"}
    /\ iter = None
    /\ \/ \E n \in Faults(trie.node, <<>>, TRUE) :
              trie' = [node |-> n,
                       length |-> Cardinality(ValueNodes([node |-> n, length |-> 0]))]
       \/ trie' = [trie EXCEPT !.length = @ + 1]
    /\ last' = [op |-> "corrupt", ret |-> None]
    /\ UNCHANGED <<iter, yielded, batch, ref>>

\* Calls are made on a trie without a fault only.
InsertIntact == last.op # "corrupt" /\ Insert

RemoveIntact == last.op # "corrupt" /\ Remove

NextCorrupt == InsertIntact \/ RemoveIntact \/ Corrupt

SpecCorrupt == Init /\ [][NextCorrupt]_vars

\* I2: no two children of a node have fragments that begin with one nibble.
SiblingsDiffer ==
    \A n \in Nodes(trie) : \A i, j \in Nibbles :
        (/\ is_some(n.node.children[i])
         /\ is_some(n.node.children[j])
         /\ unwrap(n.node.children[i]).key # <<>>
         /\ unwrap(n.node.children[j]).key # <<>>
         /\ unwrap(n.node.children[i]).key[1] = unwrap(n.node.children[j]).key[1])
            => i = j

C19_CheckIntegrity ==
    /\ Trie_check_integrity(trie) \in BOOLEAN
    /\ Trie_check_integrity(trie) =>
           /\ SlotsMatchFragments
           /\ SiblingsDiffer
           /\ BranchesHaveTwoChildren
           /\ ChildCountsMatch
           /\ LengthCounts
           /\ check_integrity_recursive(trie.node, <<>>).counted = trie.length
    /\ last.op # "corrupt" => Trie_check_integrity(trie)

\* A fault has moved a child to a slot that is not the first nibble of its
\* fragment, everything else is in order, and check_integrity returns false.
C19_Witness ==
    /\ last.op = "corrupt"
    /\ ~Trie_check_integrity(trie)
    /\ ~SlotsMatchFragments
    /\ BranchesHaveTwoChildren
    /\ ChildCountsMatch
    /\ LengthCounts
    /\ C13_PathInvariant

\* A fault has put a key of another encoding into a node, and check_integrity
\* returns true.
C19_WrongKeyPasses ==
    /\ last.op = "corrupt"
    /\ Trie_check_integrity(trie)
    /\ ~C13_PathInvariant

====
